---- MODULE Spec2Model ----
(***************************************************************************)
(* Dependency ordering, cycle detection, registry and output of wetwire.   *)
(*                                                                         *)
(*   wetwire/ordering.py           topological_sort, get_creation_order,   *)
(*                                 get_deletion_order, detect_cycles       *)
(*   wetwire_aws/importer/codegen/topology.py                              *)
(*                                 find_strongly_connected_components,     *)
(*                                 find_resource_dependencies,             *)
(*                                 order_scc_resources, topological_sort   *)
(*   wetwire/registry.py           ResourceRegistry                        *)
(*   wetwire/cli.py                validate_command                        *)
(*   wetwire_aws/base.py           CloudFormationResource.to_dict          *)
(*                                                                         *)
(* A logical id (class name / resource id) is a number of Ids; the order   *)
(* of the numbers is the lexical order of the names.                       *)
(***************************************************************************)
EXTENDS Integers, Sequences, FiniteSets, TLC

\* Number of distinct classes / resources that exist.
MaxIds == 3
\* Largest number of dependency edges an input declares.
MaxEdges == 3

Ids == 1..MaxIds

Range(s) == {s[i] : i \in 1..Len(s)}

Reverse(s) == [i \in 1..Len(s) |-> s[Len(s) + 1 - i]]

\* All the orders in which a Python set with the elements S can be iterated.
RECURSIVE Iterations(_)
Iterations(S) ==
    IF S = {} THEN {<<>>}
    ELSE UNION {{<<x>> \o rest : rest \in Iterations(S \ {x})} : x \in S}

\* The elements of the sequence s that are in S, in the order of s.
RECURSIVE Restrict(_, _)
Restrict(s, S) ==
    IF s = <<>> THEN <<>>
    ELSE IF Head(s) \in S THEN <<Head(s)>> \o Restrict(Tail(s), S)
    ELSE Restrict(Tail(s), S)

\* The dependency relations over the classes S with at most MaxEdges edges;
\* a class may depend on itself and on a class outside S.
Relations(S) ==
    {[c \in Ids |-> {d \in Ids : <<c, d>> \in E}] :
        E \in {F \in SUBSET (S \X Ids) : Cardinality(F) <= MaxEdges}}

Min(a, b) == IF a <= b THEN a ELSE b

Max(a, b) == IF a >= b THEN a ELSE b

\* All the adjacency lists a graph over the nodes S with the edge sets rel can
\* have: every node's successors in one of their iteration orders.
RECURSIVE Adjacencies(_, _)
Adjacencies(S, rel) ==
    IF S = {} THEN {<<>>}
    ELSE LET n == CHOOSE x \in S : TRUE
         IN {(n :> succ) @@ g : succ \in Iterations(rel[n]), g \in Adjacencies(S \ {n}, rel)}

VARIABLES
    classes,         \* ordering.py: the classes of the input list
    dependencies,    \* ordering.py: graph_refs.get_dependencies(cls) of every class
    set_order,       \* the order in which this process iterates a set of the classes
    creation,        \* outcome of get_creation_order(classes)
    deletion,        \* outcome of get_deletion_order(classes)
    cycles,          \* outcome of detect_cycles(classes)
    package,         \* the package whose functions this process calls
    template,        \* topology.py: the IRTemplate
    sccs,            \* outcome of find_strongly_connected_components(template)
    ordered,         \* outcome of order_scc_resources(scc, template), and its scc
    dep_graph,       \* outcome of get_dependency_graph(classes)
    validation,      \* cli.py: outcome of the validate command
    name_pattern_map, \* topology.py: the dict of name patterns, template string -> resource
    arn_pattern_map, \* topology.py: the dict of ARN patterns, template string -> (resource, attribute)
    recovered,       \* outcome of find_resource_dependencies(template, resource_id, maps)
    _resources,      \* registry.py: the dict class name -> class, as its items in insertion order
    _by_type,        \* registry.py: the dict resource type -> list of classes
    _lock,           \* registry.py: the thread that holds the Lock, or 0
    thread,          \* every thread's call of a registry method and its position in it
    calls,           \* the number of calls made so far
    sorted_ids,      \* topology.py: outcome of topological_sort(template)
    resource,        \* base.py: the fields of a CloudFormationResource instance
    entry            \* base.py: outcome of resource.to_dict()

vars == <<classes, dependencies, set_order, creation, deletion, cycles,
          package, template, sccs, ordered, dep_graph, validation,
          name_pattern_map, arn_pattern_map, recovered,
          _resources, _by_type, _lock, thread, calls, sorted_ids, resource, entry>>

ordering_vars == <<classes, dependencies, set_order, creation, deletion, cycles>>

\* The variables of the functions that are not called on the same input as the
\* ordering functions and the component search.
recovery_vars == <<name_pattern_map, arn_pattern_map, recovered>>

registry_vars == <<_resources, _by_type, _lock, thread, calls>>

\* The variables of the functions that write the generated code and the
\* template document.
codegen_vars == <<sorted_ids, resource, entry>>

other_vars == <<dep_graph, validation, recovery_vars, registry_vars, codegen_vars>>

\* The outcome of a call: not made yet, a returned value, or a raised ValueError
\* with its message and the names the message lists. passes counts the passes of the while
\* loop, by_guard tells that its iteration guard raised, and depth is the
\* deepest nesting of recursive calls.
NotCalled ==
    [status |-> "none", value |-> <<>>, names |-> <<>>, passes |-> 0,
     by_guard |-> FALSE, depth |-> 0, error |-> ""]
Returned(v, n) ==
    [status |-> "returned", value |-> v, names |-> <<>>, passes |-> n,
     by_guard |-> FALSE, depth |-> 0, error |-> ""]
Raised(names, n, guard) ==
    [status |-> "raised", value |-> <<>>, names |-> names, passes |-> n,
     by_guard |-> guard, depth |-> 0,
     error |-> "ValueError: Circular dependency detected involving"]

get_dependencies(cls) == dependencies[cls]

\* ordering.py:56-62, the classes of remaining whose dependencies are satisfied,
\* in the iteration order of the set remaining.
ready(order, rem, sorted) ==
    Restrict(order,
             {cls \in rem : get_dependencies(cls) \subseteq (Range(sorted) \cup (classes \ classes))})

\* Mutant: the message names only the first class left.
cycle_classes_first(order, rem) == SubSeq(Restrict(order, rem), 1, 1)

\* ordering.py:52 and :67, the names of the classes left in remaining.
cycle_classes(order, rem) == Restrict(order, rem)

RECURSIVE while_remaining_not_removing(_, _, _, _)
RECURSIVE while_remaining(_, _, _, _)

\* Mutant: the classes that are ready are appended to the result and stay in
\* remaining.
while_remaining_not_removing(order, sorted, rem, iters) ==
    LET max_iterations == Cardinality(classes) * Cardinality(classes)
        rdy == ready(order, rem, sorted)
    IN IF rem = {} THEN Returned(sorted, iters)
       ELSE IF iters + 1 > max_iterations
       THEN Raised(cycle_classes(order, rem), iters + 1, TRUE)
       ELSE IF rdy = <<>>
       THEN Raised(cycle_classes(order, rem), iters + 1, FALSE)
       ELSE while_remaining_not_removing(order, sorted \o rdy, rem, iters + 1)

\* ordering.py:48-74, the while loop from its pass number iters + 1 on.
while_remaining(order, sorted, rem, iters) ==
    LET max_iterations == Cardinality(classes) * Cardinality(classes)
        rdy == ready(order, rem, sorted)
    IN IF rem = {} THEN Returned(sorted, iters)
       ELSE IF iters + 1 > max_iterations
       THEN Raised(cycle_classes(order, rem), iters + 1, TRUE)
       ELSE IF rdy = <<>>
       THEN Raised(cycle_classes(order, rem), iters + 1, FALSE)
       ELSE while_remaining(order, sorted \o rdy, rem \ Range(rdy), iters + 1)

\* ordering.py:14-74
topological_sort(order) ==
    IF classes = {} THEN Returned(<<>>, 0)
    ELSE while_remaining(order, <<>>, classes, 0)

\* ordering.py:77-93
get_creation_order(order) == topological_sort(order)

\* Mutant: the creation order is returned as it is.
get_deletion_order_unreversed(order) == topological_sort(order)

\* ordering.py:96-112
get_deletion_order(order) ==
    LET result == topological_sort(order)
    IN IF result.status = "returned"
       THEN [result EXCEPT !.value = Reverse(result.value)]
       ELSE result

\* The iteration order of the sets of classes is fixed by the hashes of the
\* classes, from the first time the process builds such a set.
SetOrders == IF set_order = <<>> THEN Iterations(classes) ELSE {set_order}

CallCreationOrder ==
    /\ package = "wetwire"
    /\ dep_graph.status = "none"
    /\ creation.status = "none"
    /\ cycles.status = "none"
    /\ \E order \in SetOrders :
          /\ set_order' = order
          /\ creation' = get_creation_order(order)
    /\ UNCHANGED <<classes, dependencies, deletion, cycles, package, template, sccs, ordered, other_vars>>

CallDeletionOrder ==
    /\ package = "wetwire"
    /\ dep_graph.status = "none"
    /\ deletion.status = "none"
    /\ cycles.status = "none"
    /\ \E order \in SetOrders :
          /\ set_order' = order
          /\ deletion' = get_deletion_order(order)
    /\ UNCHANGED <<classes, dependencies, creation, cycles, package, template, sccs, ordered, other_vars>>

\* Tarjan's algorithm, ordering.py:145-150 and topology.py:44-49: the state the
\* nested strongconnect works on. index[v] = -1 when v is not in index;
\* only_cycles is ordering.py's `if len(scc) > 1`; max_depth is the deepest
\* nesting of strongconnect calls reached.
TarjanStart(only_cycles) ==
    [index_counter |-> 0, stack |-> <<>>, lowlinks |-> [v \in Ids |-> -1],
     index |-> [v \in Ids |-> -1], on_stack |-> {}, sccs |-> <<>>,
     only_cycles |-> only_cycles, max_depth |-> 0]

\* ordering.py:168-173 and topology.py:67-72, the loop that pops the component
\* of v off the stack: <<state, scc>>.
RECURSIVE pop_scc(_, _, _)
pop_scc(v, st, scc) ==
    LET w == st.stack[Len(st.stack)]
        st1 == [st EXCEPT !.stack = SubSeq(@, 1, Len(@) - 1), !.on_stack = @ \ {w}]
        scc1 == Append(scc, w)
    IN IF w = v THEN <<st1, scc1>> ELSE pop_scc(v, st1, scc1)

RECURSIVE strongconnect(_, _, _, _)
RECURSIVE for_successors(_, _, _, _, _)

\* Mutant: a successor that is on the stack does not lower the lowlink.
for_successors_unlinked(v, successors, graph, st, depth) ==
    IF successors = <<>> THEN st
    ELSE LET w == Head(successors)
             st1 == IF st.index[w] = -1
                    THEN LET r == strongconnect(w, graph, st, depth + 1)
                         IN [r EXCEPT !.lowlinks[v] = Min(r.lowlinks[v], r.lowlinks[w])]
                    ELSE st
         IN for_successors(v, Tail(successors), graph, st1, depth)

\* ordering.py:159-164 and topology.py:58-63, the loop over the successors of v
\* that are left.
for_successors(v, successors, graph, st, depth) ==
    IF successors = <<>> THEN st
    ELSE LET w == Head(successors)
             st1 == IF st.index[w] = -1
                    THEN LET r == strongconnect(w, graph, st, depth + 1)
                         IN [r EXCEPT !.lowlinks[v] = Min(r.lowlinks[v], r.lowlinks[w])]
                    ELSE IF w \in st.on_stack
                    THEN [st EXCEPT !.lowlinks[v] = Min(st.lowlinks[v], st.index[w])]
                    ELSE st
         IN for_successors(v, Tail(successors), graph, st1, depth)

\* Mutant: a finished component is put in front of the list.
strongconnect_prepending(v, graph, st, depth) ==
    LET st1 == [st EXCEPT !.index[v] = st.index_counter,
                          !.lowlinks[v] = st.index_counter,
                          !.index_counter = @ + 1,
                          !.stack = Append(@, v),
                          !.on_stack = @ \cup {v},
                          !.max_depth = Max(@, depth)]
        st2 == for_successors(v, graph[v], graph, st1, depth)
        popped == pop_scc(v, st2, <<>>)
    IN IF st2.lowlinks[v] = st2.index[v]
       THEN IF st2.only_cycles => Len(popped[2]) > 1
            THEN [popped[1] EXCEPT !.sccs = <<popped[2]>> \o @]
            ELSE popped[1]
       ELSE st2

\* ordering.py:152-176 and topology.py:51-73
strongconnect(v, graph, st, depth) ==
    LET st1 == [st EXCEPT !.index[v] = st.index_counter,
                          !.lowlinks[v] = st.index_counter,
                          !.index_counter = @ + 1,
                          !.stack = Append(@, v),
                          !.on_stack = @ \cup {v},
                          !.max_depth = Max(@, depth)]
        st2 == for_successors(v, graph[v], graph, st1, depth)
        popped == pop_scc(v, st2, <<>>)
    IN IF st2.lowlinks[v] = st2.index[v]
       THEN IF st2.only_cycles => Len(popped[2]) > 1
            THEN [popped[1] EXCEPT !.sccs = Append(@, popped[2])]
            ELSE popped[1]
       ELSE st2

\* ordering.py:178-180 and topology.py:75-77, the loop over the start nodes left.
RECURSIVE for_nodes(_, _, _)
for_nodes(nodes, graph, st) ==
    IF nodes = <<>> THEN st
    ELSE for_nodes(Tail(nodes), graph,
                   IF st.index[Head(nodes)] = -1
                   THEN strongconnect(Head(nodes), graph, st, 1)
                   ELSE st)

\* Mutant: the dependencies are not restricted to the classes given.
get_dependency_graph_unrestricted == [cls \in classes |-> get_dependencies(cls)]

\* ordering.py:185-205
get_dependency_graph == [cls \in classes |-> get_dependencies(cls) \cap classes]

\* ordering.py:136-142, the adjacency sets detect_cycles builds.
detect_cycles_graph == [cls \in classes |-> get_dependencies(cls) \cap classes]

\* Mutant: the components of one class are reported too.
detect_cycles_all_components(class_list, graph) ==
    IF class_list = <<>> THEN Returned(<<>>, 0)
    ELSE LET st == for_nodes(class_list, graph, TarjanStart(FALSE))
         IN [Returned(st.sccs, 0) EXCEPT !.depth = st.max_depth]

\* ordering.py:115-182, for the input list class_list and the adjacency sets
\* iterated as graph lists them.
detect_cycles(class_list, graph) ==
    IF class_list = <<>> THEN Returned(<<>>, 0)
    ELSE LET st == for_nodes(class_list, graph, TarjanStart(TRUE))
         IN [Returned(st.sccs, 0) EXCEPT !.depth = st.max_depth]

\* The functions are pure: a behaviour calls the two ordering functions, or
\* detect_cycles, on its input.
CallDetectCycles ==
    /\ package = "wetwire"
    /\ dep_graph.status = "none"
    /\ cycles.status = "none"
    /\ set_order = <<>>
    /\ \E class_list \in Iterations(classes) :
          \E graph \in Adjacencies(classes, detect_cycles_graph) :
             cycles' = detect_cycles(class_list, graph)
    /\ UNCHANGED <<classes, dependencies, set_order, creation, deletion, package, template, sccs, ordered, other_vars>>

\* get_dependency_graph called on the classes.
CallGetDependencyGraph ==
    /\ package = "wetwire"
    /\ dep_graph.status = "none"
    /\ creation.status = "none"
    /\ deletion.status = "none"
    /\ cycles.status = "none"
    /\ dep_graph' = [status |-> "returned", value |-> get_dependency_graph]
    /\ UNCHANGED <<ordering_vars, package, template, sccs, ordered, validation, recovery_vars,
                   registry_vars, codegen_vars>>

\* ir.py:303-341 and :167-195, the fields of an IRTemplate that topology.py
\* reads: the keys of resources, reference_graph, the names of parameters, and
\* every IRResource's depends_on and the values of its properties.
NoTemplate == [resources |-> {}, reference_graph |-> [r \in Ids |-> {}],
               depends_on |-> [r \in Ids |-> {}],
               parameters |-> {}, properties |-> [r \in Ids |-> <<>>]]

\* The templates with at most MaxEdges dependency edges, declared as references
\* in properties or as DependsOn entries; a target may be the resource itself
\* or no resource of the template (a parameter). No property of these
\* templates holds an Fn::Sub value.
Templates ==
    UNION {UNION {{[NoTemplate EXCEPT !.resources = S, !.reference_graph = rel],
                   [NoTemplate EXCEPT !.resources = S, !.depends_on = rel]} :
                  rel \in Relations(S)} : S \in SUBSET Ids}

\* The template strings of the Fn::Sub values: one whose only placeholder is
\* a pseudo parameter, one with the placeholder Env, one with Env and the
\* resource attribute Bucket.Arn, one without placeholder, the empty string.
TemplateStrings ==
    {"${AWS::StackName}-data", "${Env}-data", "${Env}-${Bucket.Arn}", "data", ""}

\* topology.py:165, re.findall(r"\$\{([^}]+)\}", template_str) on these strings.
var_refs(template_str) ==
    CASE template_str = "${AWS::StackName}-data" -> <<"AWS::StackName">>
      [] template_str = "${Env}-data" -> <<"Env">>
      [] template_str = "${Env}-${Bucket.Arn}" -> <<"Env", "Bucket.Arn">>
      [] OTHER -> <<>>

\* topology.py:166, v.startswith("AWS::") on the placeholders above.
startswith_AWS(v) == v = "AWS::StackName"

\* topology.py:166-167
all_params(template_str) ==
    LET non_pseudo_vars == {v \in Range(var_refs(template_str)) : ~startswith_AWS(v)}
    IN \A v \in non_pseudo_vars : v \in template.parameters

\* A property value (ir.py:101-122, :65-99): a string, a list, a dict (its
\* values, in items) or an IRIntrinsic (its args, a value, as the one item).
Str(text) == [kind |-> "str", type |-> "", text |-> text, items |-> <<>>]
List(items) == [kind |-> "list", type |-> "", text |-> "", items |-> items]
Dict(values) == [kind |-> "dict", type |-> "", text |-> "", items |-> values]
IRIntrinsic(type, args) == [kind |-> "IRIntrinsic", type |-> type, text |-> "", items |-> <<args>>]

\* Mutant: a name pattern recovers a dependency only when not every
\* placeholder is a declared parameter, like an ARN pattern.
sub_pattern_refs_name_checks_parameters(template_str, current_resource_id) ==
    IF template_str = "" THEN {}
    ELSE IF DOMAIN name_pattern_map # {} /\ template_str \in DOMAIN name_pattern_map
    THEN IF ~all_params(template_str)
         THEN {name_pattern_map[template_str]} \ {current_resource_id}
         ELSE {}
    ELSE IF DOMAIN arn_pattern_map # {} /\ template_str \in DOMAIN arn_pattern_map
    THEN IF ~all_params(template_str)
         THEN {arn_pattern_map[template_str][1]} \ {current_resource_id}
         ELSE {}
    ELSE {}

\* Mutant: the ARN patterns are looked up before the name patterns.
sub_pattern_refs_arn_first(template_str, current_resource_id) ==
    IF template_str = "" THEN {}
    ELSE IF DOMAIN arn_pattern_map # {} /\ template_str \in DOMAIN arn_pattern_map
    THEN IF ~all_params(template_str)
         THEN {arn_pattern_map[template_str][1]} \ {current_resource_id}
         ELSE {}
    ELSE IF DOMAIN name_pattern_map # {} /\ template_str \in DOMAIN name_pattern_map
    THEN {name_pattern_map[template_str]} \ {current_resource_id}
    ELSE {}

\* topology.py:164-177, the resources that the template string of one Fn::Sub
\* adds to deps; "" stands for the template_str None of :162 too.
sub_pattern_refs(template_str, current_resource_id) ==
    IF template_str = "" THEN {}
    ELSE IF DOMAIN name_pattern_map # {} /\ template_str \in DOMAIN name_pattern_map
    THEN {name_pattern_map[template_str]} \ {current_resource_id}
    ELSE IF DOMAIN arn_pattern_map # {} /\ template_str \in DOMAIN arn_pattern_map
    THEN IF ~all_params(template_str)
         THEN {arn_pattern_map[template_str][1]} \ {current_resource_id}
         ELSE {}
    ELSE {}

\* topology.py:157-162, the template string of a Sub intrinsic.
template_str_of(args) ==
    IF args.kind = "str" THEN args.text
    ELSE IF args.kind = "list" /\ Len(args.items) >= 1 THEN args.items[1].text
    ELSE ""

\* topology.py:146-198, the resources that the Fn::Sub values in value add to
\* deps.
RECURSIVE find_sub_in_value(_, _)
find_sub_in_value(value, current_resource_id) ==
    LET in_items(v) == UNION {find_sub_in_value(v.items[i], current_resource_id) :
                                 i \in 1..Len(v.items)}
    IN IF value.kind = "IRIntrinsic"
       THEN LET args == value.items[1]
            IN (IF value.type = "Sub"
                THEN sub_pattern_refs(template_str_of(args), current_resource_id)
                ELSE {})
               \cup IF args.kind \in {"list", "dict"} THEN in_items(args) ELSE {}
       ELSE IF value.kind \in {"dict", "list"} THEN in_items(value)
       ELSE {}

\* topology.py:130-143, over the values of the properties, if there are any.
find_sub_pattern_refs(properties, current_resource_id) ==
    IF properties = <<>> THEN {}
    ELSE UNION {find_sub_in_value(properties[i], current_resource_id) :
                   i \in 1..Len(properties)}

\* Mutant: a reference of a resource to itself is kept.
find_resource_dependencies_keeping_self(resource_id) ==
    {ref_target \in template.reference_graph[resource_id] :
        ref_target \in template.resources}
    \cup IF resource_id \in template.resources
         THEN find_sub_pattern_refs(template.properties[resource_id], resource_id)
              \cup {dep \in template.depends_on[resource_id] : dep \in template.resources}
         ELSE {}

\* topology.py:104-127
find_resource_dependencies(resource_id) ==
    {ref_target \in template.reference_graph[resource_id] :
        ref_target \in template.resources /\ ref_target # resource_id}
    \cup IF resource_id \in template.resources
         THEN find_sub_pattern_refs(template.properties[resource_id], resource_id)
              \cup {dep \in template.depends_on[resource_id] :
                       dep \in template.resources /\ dep # resource_id}
         ELSE {}

\* topology.py:37-42, the successors of every resource as a set; the list
\* built at :42 has them in the iteration order of the set deps.
resource_graph ==
    [resource_id \in template.resources |->
        {d \in find_resource_dependencies(resource_id) : d \in template.resources}]

\* Mutant: only the components of two or more resources are returned.
find_strongly_connected_components_cycles_only(nodes, graph) ==
    LET st == for_nodes(nodes, graph, TarjanStart(TRUE))
    IN [Returned(st.sccs, 0) EXCEPT !.depth = st.max_depth]

\* Mutant: the components are returned dependents first.
find_strongly_connected_components_reversed(nodes, graph) ==
    LET st == for_nodes(nodes, graph, TarjanStart(FALSE))
    IN [Returned(Reverse(st.sccs), 0) EXCEPT !.depth = st.max_depth]

\* topology.py:25-79, for the set resources iterated as nodes lists it and the
\* adjacency lists graph.
find_strongly_connected_components(nodes, graph) ==
    LET st == for_nodes(nodes, graph, TarjanStart(FALSE))
    IN [Returned(st.sccs, 0) EXCEPT !.depth = st.max_depth]

\* Mutant: every dependency counts, in the group or not.
dep_counts_all(scc) ==
    [resource_id \in Range(scc) |-> Cardinality(find_resource_dependencies(resource_id))]

\* topology.py:215-221
dep_counts(scc) ==
    [resource_id \in Range(scc) |->
        Cardinality({d \in find_resource_dependencies(resource_id) : d \in Range(scc)})]

\* The comparison of the sort keys (dep_counts[r], r) of topology.py:223.
KeyBefore(counts, a, b) ==
    counts[a] < counts[b] \/ (counts[a] = counts[b] /\ a < b)

\* Python's sorted(list, key): a stable insertion of x into the sorted list.
RECURSIVE Insert(_, _, _)
Insert(counts, sorted_list, x) ==
    IF sorted_list = <<>> THEN <<x>>
    ELSE IF KeyBefore(counts, x, Head(sorted_list)) THEN <<x>> \o sorted_list
    ELSE <<Head(sorted_list)>> \o Insert(counts, Tail(sorted_list), x)

RECURSIVE Sorted(_, _)
Sorted(counts, list) ==
    IF list = <<>> THEN <<>>
    ELSE Insert(counts, Sorted(counts, SubSeq(list, 1, Len(list) - 1)), list[Len(list)])

\* topology.py:201-223
order_scc_resources(scc) == Sorted(dep_counts(scc), scc)

\* A behaviour calls one of the two functions on its template.
CallFindSCC ==
    /\ package = "wetwire_aws.importer"
    /\ sccs.status = "none"
    /\ ordered.status = "none"
    /\ \E nodes \in Iterations(template.resources) :
          \E graph \in Adjacencies(template.resources, resource_graph) :
             sccs' = find_strongly_connected_components(nodes, graph)
    /\ UNCHANGED <<ordering_vars, package, template, ordered, other_vars>>

\* The lists of distinct resources of the template that are not empty.
ResourceLists == UNION {Iterations(S) : S \in (SUBSET template.resources) \ {{}}}

\* order_scc_resources called with a list of resources of the template.
CallOrderSCC ==
    /\ package = "wetwire_aws.importer"
    /\ sccs.status = "none"
    /\ ordered.status = "none"
    /\ \E scc \in ResourceLists :
          ordered' = [status |-> "returned", scc |-> scc,
                      value |-> order_scc_resources(scc)]
    /\ UNCHANGED <<ordering_vars, package, template, sccs, other_vars>>

(***************************************************************************)
(* topology.py: the dependencies recovered from Fn::Sub values             *)
(***************************************************************************)

NotRecovered == [status |-> "none", resource_id |-> 0, value |-> {}]

\* The property values that hold the string text: a plain string, Fn::Sub of
\* a string, Fn::Sub of a list of the string and a dict of variables, an
\* Fn::Sub in the list of an Fn::Join in a dict in a list, and an Fn::Sub whose
\* args are a dict.
PropertyValues(text) ==
    {Str(text),
     IRIntrinsic("Sub", Str(text)),
     IRIntrinsic("Sub", List(<<Str(text), Dict(<<Str("x")>>)>>)),
     List(<<Dict(<<IRIntrinsic("Join", List(<<Str("-"),
                     List(<<IRIntrinsic("Sub", Str(text))>>)>>))>>)>>),
     IRIntrinsic("Sub", Dict(<<Str(text)>>))}

\* The pattern dicts with at most one entry.
NamePatternMaps ==
    {<<>>} \cup {(k :> r) : k \in TemplateStrings \ {""}, r \in Ids}
ArnPatternMaps ==
    {<<>>} \cup {(k :> <<r, "Arn">>) : k \in TemplateStrings \ {""}, r \in Ids}

\* The templates in which one property of one resource holds a value with a
\* template string, and no reference or DependsOn entry is declared; the
\* holder is a resource of the template or not.
RecoveryTemplates ==
    UNION {UNION {{[NoTemplate EXCEPT !.resources = S, !.parameters = P,
                                      !.properties[holder] = <<value>>] :
                      S \in {Ids, Ids \ {holder}}, P \in {{}, {"Env"}}} :
                  value \in UNION {PropertyValues(text) : text \in TemplateStrings}} :
           holder \in Ids}

\* find_resource_dependencies called on one resource id with the two dicts.
CallFindResourceDependencies ==
    /\ package = "wetwire_aws.importer"
    /\ recovered.status = "none"
    /\ sccs.status = "none"
    /\ ordered.status = "none"
    /\ \E resource_id \in Ids :
          recovered' = [status |-> "returned", resource_id |-> resource_id,
                        value |-> find_resource_dependencies(resource_id)]
    /\ UNCHANGED <<ordering_vars, package, template, sccs, ordered, dep_graph,
                   validation, name_pattern_map, arn_pattern_map, registry_vars,
                   codegen_vars>>

(***************************************************************************)
(* wetwire/registry.py: ResourceRegistry, called by several threads        *)
(***************************************************************************)

\* Number of threads that call the registry.
MaxThreads == 2
\* Number of calls the threads make in all.
MaxCalls == 3

Threads == 1..MaxThreads

\* The classes that are registered: two classes named MyVPC, of the modules a
\* and b, whose resource field is annotated with VPC, and a class Plain of the
\* module a without resource field.
WrapperClasses == {"a.MyVPC", "b.MyVPC", "a.Plain"}

\* wrapper_cls.__name__
name_of(cls) == IF cls = "a.Plain" THEN "Plain" ELSE "MyVPC"

\* r.__module__
module_of(cls) == IF cls = "b.MyVPC" THEN "b" ELSE "a"

\* wrapper_utils.py:46-113; "None" is Python's None.
get_wrapped_type(cls) == IF cls = "a.Plain" THEN "None" ELSE "VPC"

\* A thread that is in no call; result is the value its last call returned,
\* as a list: the list itself, the one class, number or truth value, and the
\* empty list for None. alias names the object of the registry that a
\* returned list is; it is "" for a list that the call made, which only the
\* caller holds.
Idle ==
    [pc |-> "idle", op |-> "", arg |-> "", resource_type |-> "", result |-> <<>>,
     alias |-> ""]

\* The calls a thread makes: arg is the class, the scope package or the name.
RegistryCalls ==
    {[op |-> "register", arg |-> cls, resource_type |-> "None"] : cls \in WrapperClasses}
    \cup {[op |-> "register", arg |-> "a.Plain", resource_type |-> "AWS::S3::Bucket"],
          [op |-> "get_all", arg |-> "None", resource_type |-> ""],
          [op |-> "get_all", arg |-> "a", resource_type |-> ""],
          [op |-> "get_by_type", arg |-> "", resource_type |-> "VPC"],
          [op |-> "get_by_name", arg |-> "MyVPC", resource_type |-> ""],
          [op |-> "clear", arg |-> "", resource_type |-> ""],
          [op |-> "__len__", arg |-> "", resource_type |-> ""],
          [op |-> "__contains__", arg |-> "MyVPC", resource_type |-> ""]}

\* The methods that only read the indexes.
Readers == {"get_all", "get_by_type", "get_by_name", "__len__", "__contains__"}

\* Mutant: a list of pairs to which every assignment adds a pair.
set_item_appending(items, key, value) == Append(items, <<key, value>>)

\* dict[key] = value on the items of a dict: the value of a key that is
\* present is replaced where it is, a new key is added at the end.
set_item(items, key, value) ==
    IF \E i \in 1..Len(items) : items[i][1] = key
    THEN [i \in 1..Len(items) |-> IF items[i][1] = key THEN <<key, value>> ELSE items[i]]
    ELSE Append(items, <<key, value>>)

\* dict.values() and dict.get(key), None as the empty list.
values(items) == [i \in 1..Len(items) |-> items[i][2]]
get(items, key) ==
    IF \E i \in 1..Len(items) : items[i][1] = key
    THEN <<items[CHOOSE i \in 1..Len(items) : items[i][1] = key][2]>>
    ELSE <<>>

\* r.__module__.startswith(scope_package) for the scope package "a".
startswith(module, scope_package) == module = scope_package

\* registry.py:94-95, the classes of the copy whose module is in the scope.
RECURSIVE in_scope(_, _)
in_scope(copy, scope_package) ==
    IF copy = <<>> THEN <<>>
    ELSE IF startswith(module_of(Head(copy)), scope_package)
    THEN <<Head(copy)>> \o in_scope(Tail(copy), scope_package)
    ELSE in_scope(Tail(copy), scope_package)

\* A thread starts a call of a method of the registry.
Call(t) ==
    /\ package = "wetwire.registry"
    /\ thread[t].pc = "idle"
    /\ calls < MaxCalls
    /\ \E call \in RegistryCalls :
          thread' = [thread EXCEPT ![t] = [pc |-> "acquire", op |-> call.op, arg |-> call.arg,
                                           resource_type |-> call.resource_type,
                                           result |-> <<>>, alias |-> ""]]
    /\ calls' = calls + 1
    /\ UNCHANGED <<_resources, _by_type, _lock>>

\* Mutant: the lock does not exclude the other threads.
Acquire_not_exclusive(t) ==
    /\ thread[t].pc = "acquire"
    /\ _lock' = t
    /\ thread' = [thread EXCEPT ![t].pc = "locked"]
    /\ UNCHANGED <<_resources, _by_type, calls>>

\* `with self._lock:` of every method, the entry.
Acquire(t) ==
    /\ thread[t].pc = "acquire"
    /\ _lock = 0
    /\ _lock' = t
    /\ thread' = [thread EXCEPT ![t].pc = "locked"]
    /\ UNCHANGED <<_resources, _by_type, calls>>

\* registry.py:62-63
RegisterName(t) ==
    /\ thread[t].pc = "locked"
    /\ thread[t].op = "register"
    /\ _resources' = set_item(_resources, name_of(thread[t].arg), thread[t].arg)
    /\ thread' = [thread EXCEPT ![t].pc = "named"]
    /\ UNCHANGED <<_by_type, _lock, calls>>

\* registry.py:65-74, the resource type under which the call files the class.
resource_type_of(call) ==
    IF call.resource_type = "None" THEN get_wrapped_type(call.arg) ELSE call.resource_type

\* registry.py:65-74
RegisterType(t) ==
    /\ thread[t].pc = "named"
    /\ LET resource_type == resource_type_of(thread[t])
       IN _by_type' =
             IF resource_type = "None" THEN _by_type
             ELSE [k \in DOMAIN _by_type \cup {resource_type} |->
                      IF k = resource_type
                      THEN Append(IF k \in DOMAIN _by_type THEN _by_type[k] ELSE <<>>,
                                  thread[t].arg)
                      ELSE _by_type[k]]
    /\ thread' = [thread EXCEPT ![t].pc = "release"]
    /\ UNCHANGED <<_resources, _lock, calls>>

\* Mutant: get_all and get_by_type return the values of the dict and the list
\* of the index themselves, not a list made of them.
Read_without_copy(t) ==
    /\ thread[t].pc = "locked"
    /\ thread[t].op \in Readers
    /\ thread' = [thread EXCEPT ![t].pc = "release", ![t].alias =
          CASE thread[t].op = "get_all" -> "_resources"
            [] thread[t].op = "get_by_type" /\ thread[t].resource_type \in DOMAIN _by_type ->
                  thread[t].resource_type
            [] OTHER -> "",
          ![t].result =
          CASE thread[t].op = "get_by_name" -> get(_resources, thread[t].arg)
            [] thread[t].op = "__len__" -> <<Len(_resources)>>
            [] thread[t].op = "__contains__" -> <<get(_resources, thread[t].arg) # <<>>>>
            [] OTHER -> <<>>]
    /\ UNCHANGED <<_resources, _by_type, _lock, calls>>

\* registry.py:91-92, :112-113, :125-126, :140-141, :145-146: the read that a
\* reading method makes while it holds the lock; list(...) makes a new list.
Read(t) ==
    /\ thread[t].pc = "locked"
    /\ thread[t].op \in Readers
    /\ thread' = [thread EXCEPT ![t].pc = "release", ![t].result =
          CASE thread[t].op = "get_all" -> values(_resources)
            [] thread[t].op = "get_by_type" ->
                  IF thread[t].resource_type \in DOMAIN _by_type
                  THEN _by_type[thread[t].resource_type] ELSE <<>>
            [] thread[t].op = "get_by_name" -> get(_resources, thread[t].arg)
            [] thread[t].op = "__len__" -> <<Len(_resources)>>
            [] thread[t].op = "__contains__" -> <<get(_resources, thread[t].arg) # <<>>>>]
    /\ UNCHANGED <<_resources, _by_type, _lock, calls>>

\* registry.py:134-135
ClearResources(t) ==
    /\ thread[t].pc = "locked"
    /\ thread[t].op = "clear"
    /\ _resources' = <<>>
    /\ thread' = [thread EXCEPT ![t].pc = "cleared"]
    /\ UNCHANGED <<_by_type, _lock, calls>>

\* registry.py:136
ClearByType(t) ==
    /\ thread[t].pc = "cleared"
    /\ _by_type' = <<>>
    /\ thread' = [thread EXCEPT ![t].pc = "release"]
    /\ UNCHANGED <<_resources, _lock, calls>>

\* Mutant: the method returns and leaves the lock held.
Release_keeping_lock(t) ==
    /\ thread[t].pc = "release"
    /\ thread' = [thread EXCEPT ![t].pc = "idle", ![t].result =
          IF thread[t].op = "get_all" /\ thread[t].arg # "None"
          THEN in_scope(thread[t].result, thread[t].arg)
          ELSE thread[t].result]
    /\ UNCHANGED <<_resources, _by_type, _lock, calls>>

\* The end of `with self._lock:` and the return of the method; get_all
\* filters its copy by the scope package after it released the lock
\* (registry.py:94-95).
Release(t) ==
    /\ thread[t].pc = "release"
    /\ _lock' = 0
    /\ thread' = [thread EXCEPT ![t].pc = "idle", ![t].result =
          IF thread[t].op = "get_all" /\ thread[t].arg # "None"
          THEN in_scope(thread[t].result, thread[t].arg)
          ELSE thread[t].result]
    /\ UNCHANGED <<_resources, _by_type, calls>>

\* The list a caller sees when it looks at the list a call returned to it.
returned_list(t) ==
    IF thread[t].alias = "" THEN thread[t].result
    ELSE IF thread[t].alias = "_resources" THEN values(_resources)
    ELSE IF thread[t].alias \in DOMAIN _by_type THEN _by_type[thread[t].alias]
    ELSE <<>>

\* The caller of get_all or get_by_type removes the first class from the list
\* that was returned to it (del resources[0]): the list object changes, which
\* is the caller's own unless it is one the registry holds.
MutateReturnedList(t) ==
    /\ package = "wetwire.registry"
    /\ thread[t].pc = "idle"
    /\ thread[t].op \in {"get_all", "get_by_type"}
    /\ returned_list(t) # <<>>
    /\ IF thread[t].alias \in DOMAIN _by_type
       THEN /\ _by_type' = [_by_type EXCEPT ![thread[t].alias] = Tail(@)]
            /\ UNCHANGED thread
       ELSE /\ thread[t].alias = ""
            /\ thread' = [thread EXCEPT ![t].result = Tail(@)]
            /\ UNCHANGED _by_type
    /\ UNCHANGED <<_resources, _lock, calls>>

\* registry.py:41-46, and no thread in a call.
InitRegistry ==
    /\ _resources = <<>>
    /\ _by_type = <<>>
    /\ _lock = 0
    /\ thread = [t \in Threads |-> Idle]
    /\ calls = 0

(***************************************************************************)
(* wetwire/cli.py and wetwire_aws/cli_utils.py: the validate command        *)
(***************************************************************************)

NotValidated ==
    [status |-> "none", resources |-> <<>>, failing |-> {}, verbose |-> FALSE,
     errors |-> <<>>, warnings |-> <<>>, printed_warnings |-> <<>>,
     message |-> "", exit_code |-> 0]

\* cli.py:202-207, the loop over the dependencies of resource_cls that are
\* left; an error is the pair of the names its text holds.
RECURSIVE for_dep(_, _, _, _)
for_dep(resource_cls, deps, resource_names, errors) ==
    IF deps = <<>> THEN errors
    ELSE for_dep(resource_cls, Tail(deps), resource_names,
                 IF Head(deps) \notin resource_names
                 THEN Append(errors, <<resource_cls, Head(deps)>>)
                 ELSE errors)

RECURSIVE for_resource_cls(_, _, _, _, _)

\* Mutant: the pass stops at the first class whose dependencies cannot be
\* computed.
for_resource_cls_fail_fast(resources, deps_of, failing, resource_names, found) ==
    IF resources = <<>> THEN found
    ELSE LET resource_cls == Head(resources)
         IN IF resource_cls \in failing
            THEN [found EXCEPT !.warnings = Append(@, resource_cls)]
            ELSE for_resource_cls(Tail(resources), deps_of, failing, resource_names,
                    [found EXCEPT !.errors =
                        for_dep(resource_cls, deps_of[resource_cls], resource_names, @)])

\* cli.py:199-211, the loop over the resources that are left; get_dependencies
\* raises for the classes of failing and returns deps_of[resource_cls], in
\* its iteration order, for the others.
for_resource_cls(resources, deps_of, failing, resource_names, found) ==
    IF resources = <<>> THEN found
    ELSE LET resource_cls == Head(resources)
         IN for_resource_cls(Tail(resources), deps_of, failing, resource_names,
               IF resource_cls \in failing
               THEN [found EXCEPT !.warnings = Append(@, resource_cls)]
               ELSE [found EXCEPT !.errors =
                        for_dep(resource_cls, deps_of[resource_cls], resource_names, @)])

\* cli.py:180-228 and cli_utils.py:147-195, for the list resources that
\* registry.get_all returns.
validate_command(resources, deps_of, failing, verbose) ==
    LET found == for_resource_cls(resources, deps_of, failing, Range(resources),
                                  [errors |-> <<>>, warnings |-> <<>>])
        called == [NotValidated EXCEPT !.status = "done", !.resources = resources,
                                       !.failing = failing, !.verbose = verbose]
    IN IF resources = <<>>
       THEN [called EXCEPT !.message = "Error: No resources registered.",
                           !.exit_code = 1]
       ELSE IF found.errors # <<>>
       THEN [called EXCEPT !.errors = found.errors, !.warnings = found.warnings,
                           !.printed_warnings = IF verbose THEN found.warnings ELSE <<>>,
                           !.message = "Validation FAILED:", !.exit_code = 1]
       ELSE IF found.warnings # <<>> /\ verbose
       THEN [called EXCEPT !.warnings = found.warnings,
                           !.printed_warnings = found.warnings,
                           !.message = "Validation passed with warnings:"]
       ELSE [called EXCEPT !.warnings = found.warnings,
                           !.message = "Validation passed"]

\* The lists registry.get_all returns for the registered classes: they were
\* registered in the order of their names, or in the reverse order.
RegisteredLists ==
    LET ascending == Restrict([i \in 1..MaxIds |-> i], classes)
    IN {ascending, Reverse(ascending)}

\* One run of the validate command on the registered classes; any of them may
\* be a class whose dependencies cannot be computed.
CallValidate ==
    /\ package = "wetwire.cli"
    /\ validation.status = "none"
    /\ \E resources \in RegisteredLists :
          \E deps_of \in Adjacencies(classes, dependencies) :
             \E failing \in SUBSET classes :
                \E verbose \in BOOLEAN :
                   validation' = validate_command(resources, deps_of, failing, verbose)
    /\ UNCHANGED <<ordering_vars, package, template, sccs, ordered, dep_graph, recovery_vars,
                   registry_vars, codegen_vars>>

(***************************************************************************)
(* topology.py: topological_sort of the importer                           *)
(***************************************************************************)

\* topology.py:92-94, the loop over the references of a resource that are left.
RECURSIVE visit(_, _, _)
RECURSIVE for_dep_id(_, _, _)
for_dep_id(dep_ids, graph, st) ==
    IF dep_ids = <<>> THEN st
    ELSE for_dep_id(Tail(dep_ids), graph,
                    IF Head(dep_ids) \in template.resources
                    THEN visit(Head(dep_ids), graph, st)
                    ELSE st)

\* topology.py:87-96
visit(resource_id, graph, st) ==
    IF resource_id \in st.visited THEN st
    ELSE LET st1 == [st EXCEPT !.visited = @ \cup {resource_id}]
             st2 == for_dep_id(graph[resource_id], graph, st1)
         IN [st2 EXCEPT !.result = Append(@, resource_id)]

\* topology.py:98-99, the loop over the resources that are left.
RECURSIVE for_resource_id(_, _, _)
for_resource_id(resource_ids, graph, st) ==
    IF resource_ids = <<>> THEN st
    ELSE for_resource_id(Tail(resource_ids), graph, visit(Head(resource_ids), graph, st))

\* topology.py:82-101, for the keys of template.resources in the order
\* resource_ids and the lists of template.reference_graph as graph has them.
topological_sort_template(resource_ids, graph) ==
    for_resource_id(resource_ids, graph, [visited |-> {}, result |-> <<>>]).result

\* topological_sort called on the template.
CallTopologicalSort ==
    /\ package = "wetwire_aws.importer"
    /\ sorted_ids.status = "none"
    /\ \E resource_ids \in Iterations(template.resources) :
          \E graph \in Adjacencies(template.resources, template.reference_graph) :
             sorted_ids' = [status |-> "returned",
                            value |-> topological_sort_template(resource_ids, graph)]
    /\ UNCHANGED <<ordering_vars, package, template, sccs, ordered, dep_graph, validation,
                   recovery_vars, registry_vars, resource, entry>>

(***************************************************************************)
(* wetwire_aws/base.py: CloudFormationResource.to_dict                     *)
(***************************************************************************)

\* Python values: None, a string, a class (text is its __name__), a list (its
\* items), a dict (its items in insertion order, each an Item of key and
\* value) and a PropertyType instance (its __dict__, as the items of a dict).
None == [kind |-> "None", text |-> "", items |-> <<>>]
PyStr(text) == [kind |-> "str", text |-> text, items |-> <<>>]
PyClass(name) == [kind |-> "type", text |-> name, items |-> <<>>]
PyList(items) == [kind |-> "list", text |-> "", items |-> items]
PyDict(items) == [kind |-> "dict", text |-> "", items |-> items]
PropertyType(items) == [kind |-> "PropertyType", text |-> "", items |-> items]
Item(key, value) == [kind |-> "item", text |-> key, items |-> <<value>>]

\* dict lookups on the items of a dict.
has_key(dict, key) == \E i \in 1..Len(dict.items) : dict.items[i].text = key
value_of(dict, key) ==
    dict.items[CHOOSE i \in 1..Len(dict.items) : dict.items[i].text = key].items[1]

\* bool(value) of Python.
truthy(value) ==
    /\ value.kind # "None"
    /\ value.kind = "str" => value.text # ""
    /\ value.kind \in {"list", "dict"} => value.items # <<>>

\* base.py:31-44 on the field names of the resources below.
_to_cf_name(snake_name) ==
    CASE snake_name = "bucket_name" -> "BucketName"
      [] snake_name = "tags" -> "Tags"
      [] snake_name = "key" -> "Key"
      [] snake_name = "value" -> "Value"
      [] OTHER -> snake_name

\* base.py:96, the class variable of a resource class without explicit mappings.
_property_mappings == <<>>

\* base.py:68-74 and :129-137 without the test on metadata_fields: the fields
\* that the loop does not skip. No field name of the resources below starts
\* with "_".
is_emitted(item) ==
    /\ item.items[1].kind # "None"
    /\ ~(item.items[1].kind \in {"list", "dict"} /\ item.items[1].items = <<>>)

\* base.py:12-28 and PropertyType.to_dict, base.py:56-80.
RECURSIVE _serialize_value(_)
_serialize_value(value) ==
    IF value.kind = "PropertyType"
    THEN LET kept == SelectSeq(value.items, is_emitted)
         IN PyDict([i \in 1..Len(kept) |->
                       Item(_to_cf_name(kept[i].text), _serialize_value(kept[i].items[1]))])
    ELSE IF value.kind = "list"
    THEN PyList([i \in 1..Len(value.items) |-> _serialize_value(value.items[i])])
    ELSE IF value.kind = "dict"
    THEN PyDict([i \in 1..Len(value.items) |->
                    Item(value.items[i].text, _serialize_value(value.items[i].items[1]))])
    ELSE value

\* base.py:119-126
metadata_fields ==
    {"depends_on", "condition", "metadata", "deletion_policy", "update_policy",
     "update_replace_policy"}

\* base.py:154-165, the keys of the optional fields in the order of the code.
OptionalKeys ==
    <<Item("depends_on", PyStr("DependsOn")), Item("condition", PyStr("Condition")),
      Item("metadata", PyStr("Metadata")), Item("deletion_policy", PyStr("DeletionPolicy")),
      Item("update_policy", PyStr("UpdatePolicy")),
      Item("update_replace_policy", PyStr("UpdateReplacePolicy"))>>

\* base.py:128-146, the dict properties.
properties_of(self) ==
    LET is_property(item) == is_emitted(item) /\ item.text \notin metadata_fields
        kept == SelectSeq(self.items, is_property)
    IN PyDict([i \in 1..Len(kept) |->
                  Item(IF kept[i].text \in DOMAIN _property_mappings
                       THEN _property_mappings[kept[i].text]
                       ELSE _to_cf_name(kept[i].text),
                       _serialize_value(kept[i].items[1]))])

\* base.py:155, the names of the classes for DependsOn; the other optional
\* fields are emitted as they are.
optional_value(field, value) ==
    IF field = "depends_on"
    THEN PyList([i \in 1..Len(value.items) |-> PyStr(value.items[i].text)])
    ELSE value

\* Mutant: every optional key is emitted, with None for a field that is not
\* set.
to_dict_without_omission(self) ==
    PyDict(<<Item("Type", PyStr("AWS::S3::Bucket")), Item("Properties", properties_of(self))>>
           \o [i \in 1..Len(OptionalKeys) |->
                 Item(OptionalKeys[i].items[1].text,
                      IF truthy(value_of(self, OptionalKeys[i].text))
                      THEN optional_value(OptionalKeys[i].text,
                                          value_of(self, OptionalKeys[i].text))
                      ELSE None)])

\* base.py:106-167, for self.__dict__ as the items of self; _resource_type
\* is that of the subclass.
to_dict(self) ==
    LET is_set(key) == truthy(value_of(self, key.text))
        emitted == SelectSeq(OptionalKeys, is_set)
    IN PyDict(<<Item("Type", PyStr("AWS::S3::Bucket")),
                Item("Properties", properties_of(self))>>
              \o [i \in 1..Len(emitted) |->
                    Item(emitted[i].items[1].text,
                         optional_value(emitted[i].text, value_of(self, emitted[i].text)))])

\* The instances of a resource class with the fields bucket_name and tags
\* (a list of PropertyType instances with the fields key and value): every
\* field is None, an empty value, or a value that is not empty.
Resources ==
    {PyDict(<<Item("bucket_name", bucket_name), Item("tags", tags),
              Item("depends_on", depends_on), Item("condition", condition),
              Item("metadata", metadata), Item("deletion_policy", deletion_policy),
              Item("update_policy", update_policy),
              Item("update_replace_policy", update_replace_policy)>>) :
        bucket_name \in {None, PyStr(""), PyStr("data")},
        tags \in {None, PyList(<<>>), PyList(<<None>>),
                  PyList(<<PropertyType(<<Item("key", PyStr("env")), Item("value", None)>>)>>)},
        depends_on \in {None, PyList(<<>>), PyList(<<PyClass("MyVPC")>>)},
        condition \in {None, PyStr(""), PyStr("IsProd")},
        metadata \in {None, PyDict(<<>>), PyDict(<<Item("Owner", PyStr("team"))>>)},
        deletion_policy \in {None, PyStr(""), PyStr("Retain")},
        update_policy \in {None, PyDict(<<Item("AutoScalingRollingUpdate", PyDict(<<>>))>>)},
        update_replace_policy \in {None, PyStr("Retain")}}

\* to_dict called on the resource.
CallToDict ==
    /\ package = "wetwire_aws.base"
    /\ entry.kind = "None"
    /\ entry' = to_dict(resource)
    /\ UNCHANGED <<ordering_vars, package, template, sccs, ordered, dep_graph, validation,
                   recovery_vars, registry_vars, sorted_ids, resource>>

\* No call of topological_sort or to_dict made.
InitCodegen ==
    /\ sorted_ids = [status |-> "none", value |-> <<>>]
    /\ resource = None
    /\ entry = None

InitOrdering ==
    /\ package = "wetwire"
    /\ classes \in SUBSET Ids
    /\ dependencies \in Relations(classes)
    /\ template = NoTemplate

InitImporter ==
    /\ package = "wetwire_aws.importer"
    /\ classes = {}
    /\ dependencies = [c \in Ids |-> {}]
    /\ template \in Templates

Init ==
    /\ InitOrdering \/ InitImporter
    /\ set_order = <<>>
    /\ creation = NotCalled
    /\ deletion = NotCalled
    /\ cycles = NotCalled
    /\ sccs = NotCalled
    /\ ordered = [status |-> "none", scc |-> <<>>, value |-> <<>>]
    /\ dep_graph = [status |-> "none", value |-> <<>>]
    /\ validation = NotValidated
    /\ name_pattern_map = <<>>
    /\ arn_pattern_map = <<>>
    /\ recovered = NotRecovered
    /\ InitRegistry
    /\ InitCodegen

Next ==
    \/ CallCreationOrder
    \/ CallDeletionOrder
    \/ CallDetectCycles
    \/ CallGetDependencyGraph
    \/ CallFindSCC
    \/ CallOrderSCC

Spec == Init /\ [][Next]_vars

\* The validate command on a registry that holds the classes.
InitCli ==
    /\ package = "wetwire.cli"
    /\ classes \in SUBSET Ids
    /\ dependencies \in Relations(classes)
    /\ template = NoTemplate
    /\ set_order = <<>>
    /\ creation = NotCalled
    /\ deletion = NotCalled
    /\ cycles = NotCalled
    /\ sccs = NotCalled
    /\ ordered = [status |-> "none", scc |-> <<>>, value |-> <<>>]
    /\ dep_graph = [status |-> "none", value |-> <<>>]
    /\ validation = NotValidated
    /\ name_pattern_map = <<>>
    /\ arn_pattern_map = <<>>
    /\ recovered = NotRecovered
    /\ InitRegistry
    /\ InitCodegen

NextCli == CallValidate

SpecCli == InitCli /\ [][NextCli]_vars

\* find_resource_dependencies on a template with an Fn::Sub value.
InitRecovery ==
    /\ package = "wetwire_aws.importer"
    /\ classes = {}
    /\ dependencies = [c \in Ids |-> {}]
    /\ template \in RecoveryTemplates
    /\ name_pattern_map \in NamePatternMaps
    /\ arn_pattern_map \in ArnPatternMaps
    /\ set_order = <<>>
    /\ creation = NotCalled
    /\ deletion = NotCalled
    /\ cycles = NotCalled
    /\ sccs = NotCalled
    /\ ordered = [status |-> "none", scc |-> <<>>, value |-> <<>>]
    /\ dep_graph = [status |-> "none", value |-> <<>>]
    /\ validation = NotValidated
    /\ recovered = NotRecovered
    /\ InitRegistry
    /\ InitCodegen

NextRecovery == CallFindResourceDependencies

SpecRecovery == InitRecovery /\ [][NextRecovery]_vars

\* topological_sort of the importer on a template.
InitSort ==
    /\ InitImporter
    /\ set_order = <<>>
    /\ creation = NotCalled
    /\ deletion = NotCalled
    /\ cycles = NotCalled
    /\ sccs = NotCalled
    /\ ordered = [status |-> "none", scc |-> <<>>, value |-> <<>>]
    /\ dep_graph = [status |-> "none", value |-> <<>>]
    /\ validation = NotValidated
    /\ name_pattern_map = <<>>
    /\ arn_pattern_map = <<>>
    /\ recovered = NotRecovered
    /\ InitRegistry
    /\ InitCodegen

NextSort == CallTopologicalSort

\* to_dict on an instance of a resource class.
InitToDict ==
    /\ package = "wetwire_aws.base"
    /\ classes = {}
    /\ dependencies = [c \in Ids |-> {}]
    /\ template = NoTemplate
    /\ set_order = <<>>
    /\ creation = NotCalled
    /\ deletion = NotCalled
    /\ cycles = NotCalled
    /\ sccs = NotCalled
    /\ ordered = [status |-> "none", scc |-> <<>>, value |-> <<>>]
    /\ dep_graph = [status |-> "none", value |-> <<>>]
    /\ validation = NotValidated
    /\ name_pattern_map = <<>>
    /\ arn_pattern_map = <<>>
    /\ recovered = NotRecovered
    /\ InitRegistry
    /\ sorted_ids = [status |-> "none", value |-> <<>>]
    /\ resource \in Resources
    /\ entry = None

NextToDict == CallToDict

SpecToDict == InitToDict /\ [][NextToDict]_vars

SpecSort == InitSort /\ [][NextSort]_vars

\* Threads that call the methods of one ResourceRegistry.
InitThreads ==
    /\ package = "wetwire.registry"
    /\ classes = {}
    /\ dependencies = [c \in Ids |-> {}]
    /\ template = NoTemplate
    /\ set_order = <<>>
    /\ creation = NotCalled
    /\ deletion = NotCalled
    /\ cycles = NotCalled
    /\ sccs = NotCalled
    /\ ordered = [status |-> "none", scc |-> <<>>, value |-> <<>>]
    /\ dep_graph = [status |-> "none", value |-> <<>>]
    /\ validation = NotValidated
    /\ name_pattern_map = <<>>
    /\ arn_pattern_map = <<>>
    /\ recovered = NotRecovered
    /\ InitRegistry
    /\ InitCodegen

registry_unchanged ==
    UNCHANGED <<ordering_vars, package, template, sccs, ordered, dep_graph, validation,
                recovery_vars, codegen_vars>>

NextRegistry ==
    \/ \E t \in Threads : Call(t) /\ registry_unchanged
    \/ \E t \in Threads : Acquire(t) /\ registry_unchanged
    \/ \E t \in Threads : RegisterName(t) /\ registry_unchanged
    \/ \E t \in Threads : RegisterType(t) /\ registry_unchanged
    \/ \E t \in Threads : Read(t) /\ registry_unchanged
    \/ \E t \in Threads : ClearResources(t) /\ registry_unchanged
    \/ \E t \in Threads : ClearByType(t) /\ registry_unchanged
    \/ \E t \in Threads : Release(t) /\ registry_unchanged
    \/ \E t \in Threads : MutateReturnedList(t) /\ registry_unchanged

SpecRegistry == InitThreads /\ [][NextRegistry]_vars

\* The class names that are registered or that a call of register which has
\* not returned is about to register.
names_in_use ==
    {_resources[i][1] : i \in 1..Len(_resources)}
    \cup {name_of(thread[u].arg) : u \in {v \in Threads : thread[v].op = "register"
                                                          /\ thread[v].pc # "idle"}}

\* A thread starts a call of a reading method, or a call of register with a
\* class whose name no call of register was given before.
CallWithNewName(t) ==
    /\ package = "wetwire.registry"
    /\ thread[t].pc = "idle"
    /\ calls < MaxCalls
    /\ \E call \in RegistryCalls :
          /\ call.op # "clear"
          /\ call.op = "register" => name_of(call.arg) \notin names_in_use
          /\ thread' = [thread EXCEPT ![t] = [pc |-> "acquire", op |-> call.op, arg |-> call.arg,
                                              resource_type |-> call.resource_type,
                                              result |-> <<>>, alias |-> ""]]
    /\ calls' = calls + 1
    /\ UNCHANGED <<_resources, _by_type, _lock>>

\* The steps of a call of thread t, from the entry of `with self._lock:` to
\* the return.
Step(t) ==
    \/ Acquire(t) /\ registry_unchanged
    \/ RegisterName(t) /\ registry_unchanged
    \/ RegisterType(t) /\ registry_unchanged
    \/ Read(t) /\ registry_unchanged
    \/ Release(t) /\ registry_unchanged

NextDistinctNames ==
    \/ \E t \in Threads : CallWithNewName(t) /\ registry_unchanged
    \/ \E t \in Threads : Step(t)

\* Threads that register classes of distinct names and read the registry.
\* While some thread can take a step of its call, one of them is scheduled in
\* the end.
SpecDistinctNames ==
    InitThreads /\ [][NextDistinctNames]_vars /\ WF_vars(\E t \in Threads : Step(t))

(***************************************************************************)
(* Graph notions the properties are stated with.                           *)
(***************************************************************************)

\* The nodes reachable from the nodes of seen along edges of the graph rel.
RECURSIVE Closure(_, _)
Closure(rel, seen) ==
    LET next == seen \cup UNION {rel[x] : x \in seen}
    IN IF next = seen THEN seen ELSE Closure(rel, next)

\* The nodes reachable from c along one or more edges.
Reachable(rel, c) == Closure(rel, rel[c])

MutuallyReachable(rel, a, b) == b \in Reachable(rel, a) /\ a \in Reachable(rel, b)

OnCycle(rel, c) == c \in Reachable(rel, c)

\* c lies on a cycle through two or more nodes.
InNonTrivialSCC(rel, c) == \E d \in DOMAIN rel : d # c /\ MutuallyReachable(rel, c, d)

Acyclic(rel) == \A c \in DOMAIN rel : ~OnCycle(rel, c)

\* The strongly connected component of c.
SCCOf(rel, c) == {c} \cup {d \in DOMAIN rel : MutuallyReachable(rel, c, d)}

IsPermutationOf(s, S) ==
    /\ Len(s) = Cardinality(S)
    /\ Range(s) = S

\* The positions <<i, j>> at which x occurs in the list of lists groups.
Occurrences(groups, x) ==
    {p \in (1..Len(groups)) \X (1..MaxIds) : p[2] <= Len(groups[p[1]]) /\ groups[p[1]][p[2]] = x}

GroupOf(groups, x) == CHOOSE i \in 1..Len(groups) : x \in Range(groups[i])

(***************************************************************************)
(* ordering.py                                                             *)
(***************************************************************************)

\* C1: for every acyclic set of classes get_creation_order returns a
\* permutation of the input in which every class comes after all the classes it
\* depends on.
C1_CreationOrderOfAcyclicSet ==
    (creation.status # "none" /\ Acyclic(get_dependency_graph)) =>
        /\ creation.status = "returned"
        /\ IsPermutationOf(creation.value, classes)
        /\ \A i, j \in 1..Len(creation.value) :
              creation.value[j] \in get_dependencies(creation.value[i]) => j < i

\* The same for the acyclic sets in which no class depends on a class that is
\* not in the set.
CreationOrderOfClosedAcyclicSet ==
    (/\ creation.status # "none"
     /\ Acyclic(get_dependency_graph)
     /\ \A c \in classes : get_dependencies(c) \subseteq classes) =>
        /\ creation.status = "returned"
        /\ IsPermutationOf(creation.value, classes)
        /\ \A i, j \in 1..Len(creation.value) :
              creation.value[j] \in get_dependencies(creation.value[i]) => j < i

\* C2: where get_creation_order returns L, get_deletion_order returns the
\* reverse of L, every dependent before each of its dependencies, and
\* get_deletion_order raises exactly where get_creation_order raises.
C2_DeletionIsReverseOfCreation ==
    (creation.status # "none" /\ deletion.status # "none") =>
        /\ deletion.status = creation.status
        /\ creation.status = "returned" =>
              /\ deletion.value = Reverse(creation.value)
              /\ \A i, j \in 1..Len(deletion.value) :
                    deletion.value[j] \in get_dependencies(deletion.value[i]) => i < j

C2_Witness ==
    /\ creation.status = "returned"
    /\ deletion.status = "returned"
    /\ Len(deletion.value) >= 2
    /\ \E c \in classes : get_dependencies(c) # {}

\* C3: when the dependency graph of the classes has a cycle through two or
\* more classes, get_creation_order and get_deletion_order raise the circular
\* dependency error, and its message names every class of every such cycle.
C3_CycleRaisesNamingMembers ==
    \A outcome \in {creation, deletion} :
        (/\ outcome.status # "none"
         /\ \E c \in classes : InNonTrivialSCC(get_dependency_graph, c)) =>
            /\ outcome.status = "raised"
            /\ \A c \in classes :
                  InNonTrivialSCC(get_dependency_graph, c) => c \in Range(outcome.names)

C3_Witness ==
    /\ creation.status = "raised"
    /\ deletion.status = "raised"
    /\ \E c \in classes : InNonTrivialSCC(get_dependency_graph, c)
    /\ Range(creation.names) # classes

C4_ComponentsPartitionResources ==
    sccs.status = "returned" =>
        /\ \A r \in template.resources : Cardinality(Occurrences(sccs.value, r)) = 1
        /\ \A i \in 1..Len(sccs.value) :
              sccs.value[i] # <<>> /\ Range(sccs.value[i]) \subseteq template.resources

C4_Witness ==
    /\ sccs.status = "returned"
    /\ Len(sccs.value) >= 2
    /\ \E i \in 1..Len(sccs.value) : Len(sccs.value[i]) >= 2

\* C5: find_strongly_connected_components returns on every template, cyclic or
\* not, and two distinct resources are in the same group exactly when each is
\* reachable from the other; A <-> B yields the single group {A, B}.
C5_GroupsAreMutualReachability ==
    sccs.status # "none" =>
        /\ sccs.status = "returned"
        /\ \A a, b \in template.resources :
              a # b =>
                 ((\E i \in 1..Len(sccs.value) : {a, b} \subseteq Range(sccs.value[i]))
                  <=> MutuallyReachable(resource_graph, a, b))
        /\ (template.resources = {1, 2} /\ resource_graph = (1 :> {2}) @@ (2 :> {1})) =>
              (Len(sccs.value) = 1 /\ Range(sccs.value[1]) = {1, 2})

C5_Witness ==
    /\ sccs.status = "returned"
    /\ \E a, b \in template.resources : a # b /\ MutuallyReachable(resource_graph, a, b)
    /\ \E a, b \in template.resources : b \in resource_graph[a] /\ a \notin Reachable(resource_graph, b)

\* C6: when a resource r depends on a resource d of another group, the group
\* of d is at an earlier position of the returned list than the group of r.
C6_DependenciesInEarlierGroups ==
    sccs.status = "returned" =>
        \A r \in template.resources :
            \A d \in find_resource_dependencies(r) :
                GroupOf(sccs.value, d) # GroupOf(sccs.value, r) =>
                    GroupOf(sccs.value, d) < GroupOf(sccs.value, r)

C6_Witness ==
    /\ sccs.status = "returned"
    /\ \E r \in template.resources :
          \E d \in find_resource_dependencies(r) :
              GroupOf(sccs.value, d) < GroupOf(sccs.value, r)

\* Component i of the returned list depends on component j.
ComponentDependsOn(i, j) ==
    /\ i # j
    /\ \E r \in Range(sccs.value[i]) : find_resource_dependencies(r) \cap Range(sccs.value[j]) # {}

\* C7 as claimed: the components a component depends on are later in the
\* returned list, never earlier.
C7_DependenciesLaterInList ==
    sccs.status = "returned" =>
        \A i, j \in 1..Len(sccs.value) : ComponentDependsOn(i, j) => j > i

\* C7, amended: the components a component depends on are earlier in the
\* returned list, never later.
C7_DependenciesEarlierInList ==
    sccs.status = "returned" =>
        \A i, j \in 1..Len(sccs.value) : i < j => ~ComponentDependsOn(i, j)

C7_Witness ==
    /\ sccs.status = "returned"
    /\ \E i, j \in 1..Len(sccs.value) :
          /\ ComponentDependsOn(j, i)
          /\ i < j
          /\ Len(sccs.value[i]) + Len(sccs.value[j]) >= 3

\* The number of dependencies r has on other members of the group scc.
InGroupDependencies(scc, r) == Cardinality((resource_graph[r] \cap Range(scc)) \ {r})

\* C8: order_scc_resources returns a permutation of the group sorted by
\* ascending number of in-group dependencies, ties by ascending logical id;
\* for the cycle A <-> B it returns [A, B].
C8_GroupSortedByInGroupDependencies ==
    ordered.status = "returned" =>
        /\ Len(ordered.value) = Len(ordered.scc)
        /\ Range(ordered.value) = Range(ordered.scc)
        /\ \A i, j \in 1..Len(ordered.value) :
              i < j =>
                 LET a == InGroupDependencies(ordered.scc, ordered.value[i])
                     b == InGroupDependencies(ordered.scc, ordered.value[j])
                 IN a < b \/ (a = b /\ ordered.value[i] < ordered.value[j])
        /\ (Range(ordered.scc) = {1, 2} /\ 2 \in resource_graph[1] /\ 1 \in resource_graph[2]) =>
              ordered.value = <<1, 2>>

C8_Witness ==
    /\ ordered.status = "returned"
    /\ ordered.value # ordered.scc
    /\ \E a, b, c \in Range(ordered.scc) :
          /\ a # b
          /\ InGroupDependencies(ordered.scc, a) = InGroupDependencies(ordered.scc, b)
          /\ InGroupDependencies(ordered.scc, a) < InGroupDependencies(ordered.scc, c)

\* The forward references of an emission order: the in-group dependencies of
\* a member on a member emitted later.
ForwardReferences(order) ==
    {p \in (1..Len(order)) \X (1..Len(order)) :
        p[1] < p[2] /\ order[p[2]] \in find_resource_dependencies(order[p[1]])}

\* C9: no permutation of a multi-member group has fewer forward references
\* than the order order_scc_resources returns.
C9_FewestForwardReferences ==
    (/\ ordered.status = "returned"
     /\ Len(ordered.scc) >= 2
     /\ \A r \in Range(ordered.scc) : SCCOf(resource_graph, r) = Range(ordered.scc)) =>
        \A other \in Iterations(Range(ordered.scc)) :
            Cardinality(ForwardReferences(ordered.value)) <= Cardinality(ForwardReferences(other))

(***************************************************************************)
(* Tie-breaking and determinism                                            *)
(***************************************************************************)

\* The pass of the while loop of topological_sort in which the class c of an
\* acyclic, closed set becomes ready: one more than the latest pass of its
\* dependencies.
RECURSIVE PassOf(_)
PassOf(c) ==
    IF get_dependencies(c) = {} THEN 1
    ELSE 1 + (CHOOSE m \in 1..MaxIds :
                 /\ \E d \in get_dependencies(c) : PassOf(d) = m
                 /\ \A d \in get_dependencies(c) : PassOf(d) <= m)

\* C11: the classes that are ready in the same pass are emitted in ascending
\* order of their logical ids by get_creation_order and in descending order by
\* get_deletion_order, whatever the iteration order of the sets.
C11_ReadyClassesInAscendingIdOrder ==
    /\ creation.status = "returned" =>
          \A i, j \in 1..Len(creation.value) :
              (i < j /\ PassOf(creation.value[i]) = PassOf(creation.value[j])) =>
                  creation.value[i] < creation.value[j]
    /\ deletion.status = "returned" =>
          \A i, j \in 1..Len(deletion.value) :
              (i < j /\ PassOf(deletion.value[i]) = PassOf(deletion.value[j])) =>
                  deletion.value[i] > deletion.value[j]

\* C13: find_strongly_connected_components returns the same list of
\* components, with the same member order, whatever the order in which the set
\* of resources and the sets of dependencies are iterated.
C13_ComponentsIndependentOfIterationOrder ==
    sccs.status = "returned" =>
        \A nodes \in Iterations(template.resources) :
            \A graph \in Adjacencies(template.resources, resource_graph) :
                find_strongly_connected_components(nodes, graph).value = sccs.value

(***************************************************************************)
(* References to classes that are not given, and to the class itself       *)
(***************************************************************************)

\* C14: a dependency of a given class on a class that is not given is
\* reported as an unresolved-reference error that names the source and the
\* target: get_dependency_graph does not return a graph without the edge, and
\* the ordering functions do not return an order or raise another error.
C14_UnresolvedReferenceReported ==
    \A c \in classes :
        \A d \in get_dependencies(c) \ classes :
            /\ dep_graph.status # "none" => dep_graph.status = "raised"
            /\ \A outcome \in {creation, deletion} :
                  outcome.status # "none" =>
                      /\ outcome.status = "raised"
                      /\ outcome.error = "UnresolvedReferenceError"
                      /\ {c, d} \subseteq Range(outcome.names)

\* The number of entries of the list that are x.
Count(list, x) == Cardinality({i \in 1..Len(list) : list[i] = x})

C16_GraphsClosedOverTheirNodes ==
    /\ dep_graph.status = "returned" =>
          /\ DOMAIN dep_graph.value = classes
          /\ \A c \in classes : dep_graph.value[c] \subseteq classes
    /\ sccs.status = "returned" =>
          /\ DOMAIN resource_graph = template.resources
          /\ \A r \in template.resources : resource_graph[r] \subseteq template.resources

C16_Witness ==
    /\ dep_graph.status = "returned"
    /\ \E c \in classes :
          /\ get_dependencies(c) \ classes # {}
          /\ dep_graph.value[c] # {}

\* The resource declares a reference or a DependsOn entry to itself.
ReferencesItself(r) == r \in template.reference_graph[r] \cup template.depends_on[r]

SubValues(text) ==
    PropertyValues(text) \ {Str(text), IRIntrinsic("Sub", Dict(<<Str(text)>>))}

\* A property of the resource r holds an Fn::Sub with the template string text.
HoldsSub(r, text) ==
    /\ r \in template.resources
    /\ template.properties[r] # <<>>
    /\ template.properties[r][1] \in SubValues(text)

\* Every placeholder of the template string that is no pseudo parameter is a
\* declared parameter of the template.
EveryPlaceholderDeclared(text) ==
    CASE text = "${Env}-data" -> "Env" \in template.parameters
      [] text = "${Env}-${Bucket.Arn}" -> FALSE
      [] OTHER -> TRUE

IsNamePatternOf(text, R) ==
    text \in DOMAIN name_pattern_map /\ name_pattern_map[text] = R

IsArnPatternOf(text, R) ==
    text \in DOMAIN arn_pattern_map /\ arn_pattern_map[text][1] = R

\* C18 as claimed: the edge to R is recovered exactly when the template string
\* is a name or ARN pattern of another resource R and not every placeholder is
\* a declared parameter, for name patterns as for ARN patterns. Stated for the
\* strings that are not a key of both dicts.
C18_RecoveredOnlyWithUndeclaredPlaceholder ==
    recovered.status = "returned" =>
        \A text \in TemplateStrings \ {""} :
            (/\ HoldsSub(recovered.resource_id, text)
             /\ ~(text \in DOMAIN name_pattern_map /\ text \in DOMAIN arn_pattern_map)) =>
                \A R \in Ids :
                    R \in recovered.value <=>
                        /\ R # recovered.resource_id
                        /\ IsNamePatternOf(text, R) \/ IsArnPatternOf(text, R)
                        /\ ~EveryPlaceholderDeclared(text)

\* C18, amended: the edge to R is recovered exactly when R is another resource
\* and the template string of an Fn::Sub of the resource is the name pattern
\* of R, whatever its placeholders, or is no name pattern and is the ARN
\* pattern of R and not every placeholder is a declared parameter.
C18_RecoveredFromNameOrUndeclaredArn ==
    recovered.status = "returned" =>
        \A R \in Ids :
            R \in recovered.value <=>
                /\ R # recovered.resource_id
                /\ \E text \in TemplateStrings \ {""} :
                      /\ HoldsSub(recovered.resource_id, text)
                      /\ \/ IsNamePatternOf(text, R)
                         \/ /\ text \notin DOMAIN name_pattern_map
                            /\ IsArnPatternOf(text, R)
                            /\ ~EveryPlaceholderDeclared(text)

\* A name pattern whose placeholders are all declared recovers an edge, and
\* the same string as ARN pattern would not.
C18_Witness ==
    /\ recovered.status = "returned"
    /\ recovered.value # {}
    /\ HoldsSub(recovered.resource_id, "${Env}-data")
    /\ "Env" \in template.parameters
    /\ arn_pattern_map # <<>>

\* The template string is the name pattern of one resource and the ARN
\* pattern of another, both other than r.
Ambiguous(r, text) ==
    /\ text \in DOMAIN name_pattern_map
    /\ text \in DOMAIN arn_pattern_map
    /\ name_pattern_map[text] # arn_pattern_map[text][1]
    /\ r \notin {name_pattern_map[text], arn_pattern_map[text][1]}

HalfRegistered(u) ==
    /\ thread[u].op = "register"
    /\ thread[u].pc = "named"
    /\ resource_type_of(thread[u]) # "None"

\* The thread is in a reading method and holds the lock, before or after its
\* read of the index.
Reading(t) ==
    /\ thread[t].op \in Readers
    /\ thread[t].pc \in {"locked", "release"}

\* C20: no reader reads an index while a call of register has written the
\* class into the name index and not yet into the type index.
C20_NoReaderSeesHalfRegistered ==
    \A t, u \in Threads : Reading(t) => ~HalfRegistered(u)

\* A reader holds the lock while another thread, in a call of register that
\* files its class under a type, waits for the lock, after a class was
\* registered in both indexes.
C20_Witness ==
    /\ \E t, u \in Threads :
          /\ Reading(t)
          /\ thread[u].op = "register"
          /\ thread[u].pc = "acquire"
          /\ resource_type_of(thread[u]) # "None"
    /\ _resources # <<>>
    /\ DOMAIN _by_type # {}

\* The thread is back from a call of get_all or get_by_type and holds the
\* list the call returned.
HoldsReturnedList(t) ==
    /\ thread[t].pc = "idle"
    /\ thread[t].op \in {"get_all", "get_by_type"}

\* C21: the list that get_all or get_by_type returned is a snapshot. It was
\* read while the caller held the lock; no step of another thread (a
\* register, a clear) changes the list the caller holds; and when the caller
\* changes its list, the two indexes of the registry stay as they are.
C21_ReturnedListsAreSnapshots ==
    /\ [](\A t \in Threads :
             thread[t].op \in {"get_all", "get_by_type"} /\ thread[t].pc = "release"
                => _lock = t)
    /\ [][\A t \in Threads :
             HoldsReturnedList(t) /\ HoldsReturnedList(t)'
                => /\ thread'[t] = thread[t] => returned_list(t)' = returned_list(t)
                   /\ returned_list(t)' # returned_list(t)
                         => UNCHANGED <<_resources, _by_type>>]_vars

\* A thread holds the list that get_all returned to it, and since then another
\* thread registered a second class under the name of the class in the list.
C21_Witness ==
    \E t \in Threads :
       /\ HoldsReturnedList(t)
       /\ thread[t].op = "get_all"
       /\ returned_list(t) = <<"a.MyVPC">>
       /\ get(_resources, "MyVPC") = <<"b.MyVPC">>

(***************************************************************************)
(* registry.py: what the indexes hold after register and clear             *)
(***************************************************************************)

\* The class names of the classes that are registered.
Names == {name_of(cls) : cls \in WrapperClasses}

\* The thread writes its class into the name index in this step.
RegistersName(t) == thread[t].pc = "locked" /\ thread'[t].pc = "named"

\* The thread empties the name index in this step.
Clears(t) == thread[t].pc = "locked" /\ thread'[t].pc = "cleared"

\* C22: under a name the registry holds the class most recently registered
\* under it since the last clear, or nothing. A register puts its class under
\* the name of the class, a clear leaves nothing under any name and no other
\* step changes what a name has; get_by_name returns what the name has,
\* __contains__ whether it has something, and __len__ and the length of
\* get_all() are the number of names that have something.
C22_NameIndexHoldsMostRecentClass ==
    /\ [][\A n \in Names :
             IF \E t \in Threads : RegistersName(t) /\ name_of(thread[t].arg) = n
             THEN \A t \in Threads :
                     RegistersName(t) => get(_resources, n)' = <<thread[t].arg>>
             ELSE IF \E t \in Threads : Clears(t)
             THEN get(_resources, n)' = <<>> /\ Len(_resources)' = 0
             ELSE get(_resources, n)' = get(_resources, n)]_vars
    /\ [](\A t \in Threads :
             thread[t].pc = "release" =>
                LET registered == {n \in Names : get(_resources, n) # <<>>}
                IN /\ thread[t].op = "get_by_name"
                         => thread[t].result = get(_resources, thread[t].arg)
                   /\ thread[t].op = "__contains__"
                         => thread[t].result = <<thread[t].arg \in registered>>
                   /\ thread[t].op = "__len__"
                         => thread[t].result = <<Cardinality(registered)>>
                   /\ thread[t].op = "get_all"
                         => Len(thread[t].result) = Cardinality(registered))

\* get_by_name("MyVPC") has read the class b.MyVPC, which was registered after
\* the class a.MyVPC of the same name.
C22_Witness ==
    /\ \E t \in Threads :
          /\ thread[t].pc = "release"
          /\ thread[t].op = "get_by_name"
          /\ thread[t].result = <<"b.MyVPC">>
    /\ "VPC" \in DOMAIN _by_type
    /\ _by_type["VPC"] = <<"a.MyVPC", "b.MyVPC">>

\* The classes that get_by_type returns over all the types.
ClassesByType == UNION {Range(_by_type[T]) : T \in DOMAIN _by_type}

\* C28: while no call holds the lock, the two indexes agree. Every class that
\* get_by_type returns is a class get_all returns (the class get_by_name
\* returns for its name) and is listed once under its type, and every class
\* of get_all whose resource field has a type is returned by get_by_type.
C28_IndexesConsistent ==
    _lock = 0 =>
       /\ \A T \in DOMAIN _by_type :
             \A cls \in Range(_by_type[T]) :
                /\ get(_resources, name_of(cls)) = <<cls>>
                /\ Count(_by_type[T], cls) = 1
       /\ \A cls \in Range(values(_resources)) :
             get_wrapped_type(cls) # "None" => cls \in ClassesByType

\* The thread is inside `with self._lock:`.
InLock(t) == thread[t].pc \in {"locked", "named", "cleared", "release"}

\* C29: threads that register classes of distinct names, among readers. Every
\* call returns, so that in the end no thread is in a call; the lock is held exactly while one thread is inside its
\* `with` block, so it is free when all calls have returned; a class whose
\* call of register has returned is the class of its name and is listed once
\* under its resource type; and no later step takes a class out of either
\* index.
C29_NoRegistrationLostNoDeadlock ==
    /\ <>[](\A t \in Threads : thread[t].pc = "idle")
    /\ [](/\ \A t \in Threads : InLock(t) <=> _lock = t
          /\ (\A t \in Threads : thread[t].pc = "idle") => _lock = 0)
    /\ [](\A t \in Threads :
             thread[t].op = "register" /\ thread[t].pc = "idle" =>
                LET cls == thread[t].arg
                    T == resource_type_of(thread[t])
                IN /\ get(_resources, name_of(cls)) = <<cls>>
                   /\ T # "None" => T \in DOMAIN _by_type /\ Count(_by_type[T], cls) = 1)
    /\ [](\A cls \in Range(values(_resources)) :
             \A T \in DOMAIN _by_type : Count(_by_type[T], cls) <= 1)
    /\ [][/\ \A n \in Names :
               get(_resources, n) # <<>> => get(_resources, n)' = get(_resources, n)
          /\ \A T \in DOMAIN _by_type :
               /\ T \in DOMAIN _by_type'
               /\ Range(_by_type[T]) \subseteq Range(_by_type'[T])]_vars

\* Two threads have registered classes of different names at the same time:
\* one has returned while the other was waiting for the lock and now holds
\* it, with its class in both indexes.
C29_Witness ==
    \E t, u \in Threads :
       /\ thread[t].op = "register" /\ thread[t].pc = "idle"
       /\ thread[u].op = "register" /\ thread[u].pc = "release"
       /\ name_of(thread[t].arg) # name_of(thread[u].arg)
       /\ Len(_resources) = 2
       /\ DOMAIN _by_type = {"VPC", "AWS::S3::Bucket"}

(***************************************************************************)
(* ordering.py: the circular-dependency error and the passes of the loop   *)
(***************************************************************************)

\* C27: the names in the circular-dependency error of topological_sort are
\* exactly the classes that lie on a dependency cycle.
C27_ErrorNamesExactlyCycleMembers ==
    \A outcome \in {creation, deletion} :
        outcome.status = "raised" =>
            Range(outcome.names) = {c \in classes : OnCycle(get_dependency_graph, c)}

\* C26: topological_sort and detect_cycles agree on every list of classes:
\* get_creation_order raises the circular-dependency error exactly when
\* detect_cycles, on the same list, returns a list that is not empty.
C26_SortRaisesExactlyWhenCyclesDetected ==
    creation.status # "none" =>
        \A class_list \in Iterations(classes) :
           \A graph \in Adjacencies(classes, detect_cycles_graph) :
              creation.status = "raised" <=> detect_cycles(class_list, graph).value # <<>>

\* C30: topological_sort ends within len(classes) passes of its loop, and it is
\* never the guard on the number of iterations that ends it: a pass that does
\* not raise moves a class from remaining to the result.
C30_SortEndsWithinLenPasses ==
    \A outcome \in {creation, deletion} :
        outcome.status # "none" =>
            /\ outcome.passes <= Cardinality(classes)
            /\ ~outcome.by_guard
            /\ outcome.status = "returned" => Len(outcome.value) = Cardinality(classes)
            /\ outcome.status = "raised" => outcome.names # <<>>

\* A chain of MaxIds classes, sorted in as many passes as there are classes,
\* one class a pass.
C30_Witness ==
    /\ creation.status = "returned"
    /\ Cardinality(classes) = MaxIds
    /\ creation.passes = MaxIds

(***************************************************************************)
(* The depth of the component search                                       *)
(***************************************************************************)

\* C24: the component search uses a call stack whose depth does not grow with
\* the number of resources or the length of a dependency chain: strongconnect
\* is never called from within strongconnect.
C24_SearchDepthIndependentOfChain ==
    /\ cycles.status = "returned" => cycles.depth <= 1
    /\ sccs.status = "returned" => sccs.depth <= 1

(***************************************************************************)
(* topology.py: topological_sort of the importer                           *)
(***************************************************************************)

\* C25: topological_sort(template) returns every resource id of the template
\* once, also for a template with dependency cycles, and for a template
\* without cycles every resource comes after the resources it depends on by
\* find_resource_dependencies: referenced resources, DependsOn entries and
\* recovered Sub-pattern targets.
C25_ImporterSortPutsDependenciesFirst ==
    sorted_ids.status # "none" =>
        /\ sorted_ids.status = "returned"
        /\ IsPermutationOf(sorted_ids.value, template.resources)
        /\ Acyclic(resource_graph) =>
              \A i, j \in 1..Len(sorted_ids.value) :
                 sorted_ids.value[j] \in find_resource_dependencies(sorted_ids.value[i])
                    => j < i

(***************************************************************************)
(* base.py: the document entry of a resource                               *)
(***************************************************************************)

\* The four optional fields of the claim and their keys in the entry.
OmittedIfAbsent ==
    {<<"depends_on", "DependsOn">>, <<"condition", "Condition">>,
     <<"metadata", "Metadata">>, <<"deletion_policy", "DeletionPolicy">>}

\* Type and Properties are in the entry, and no key of the entry or of its
\* Properties has the value None.
NoNullValue ==
    /\ has_key(entry, "Type")
    /\ has_key(entry, "Properties")
    /\ \A i \in 1..Len(entry.items) : entry.items[i].items[1].kind # "None"
    /\ LET Properties == value_of(entry, "Properties")
       IN /\ Properties.kind = "dict"
          /\ \A i \in 1..Len(Properties.items) : Properties.items[i].items[1].kind # "None"

\* C23 as claimed: each of DependsOn, Condition, Metadata and DeletionPolicy
\* is in the entry exactly when the field of the resource is set, that is, is
\* not None; no key carries None; Type and Properties are always there.
C23_OptionalKeyPresentIffFieldSet ==
    entry.kind # "None" =>
        /\ NoNullValue
        /\ \A f \in OmittedIfAbsent :
              has_key(entry, f[2]) <=> value_of(resource, f[1]).kind # "None"

\* C23, amended: each of the four keys is in the entry exactly when the field
\* is set to a value that is not empty; a field that is None, an empty list,
\* an empty dict or the empty string is omitted. An emitted key carries the
\* value of the field, DependsOn the names of its classes. No key of the entry
\* or of Properties carries None; Type and Properties are always there.
C23_OptionalKeyPresentIffFieldNotEmpty ==
    entry.kind # "None" =>
        /\ NoNullValue
        /\ \A f \in OmittedIfAbsent :
              /\ has_key(entry, f[2]) <=> truthy(value_of(resource, f[1]))
              /\ has_key(entry, f[2]) =>
                    value_of(entry, f[2]) = optional_value(f[1], value_of(resource, f[1]))

\* to_dict was called on a resource whose depends_on is the empty list and
\* whose condition is the empty string, with a deletion policy: the entry has
\* DeletionPolicy and neither DependsOn nor Condition; its field bucket_name
\* is None and so is no key of Properties.
C23_Witness ==
    /\ entry.kind = "dict"
    /\ value_of(resource, "depends_on") = PyList(<<>>)
    /\ value_of(resource, "condition") = PyStr("")
    /\ value_of(resource, "bucket_name").kind = "None"
    /\ has_key(entry, "DeletionPolicy")
    /\ ~has_key(entry, "DependsOn")
    /\ ~has_key(value_of(entry, "Properties"), "BucketName")
    /\ has_key(value_of(entry, "Properties"), "Tags")

====
